---- MODULE Spec2Model ----
(***************************************************************************)
(* Model of the discrete-event queueing simulator of src/engine.py: the    *)
(* bounded buffer (ring insertion D1031, oldest eviction D10O3, newest-    *)
(* first extraction D2B2), the device pool with its cyclic cursor (D2P2),  *)
(* the heap-ordered event calendar, the placement and selection            *)
(* dispatchers and the Arrival / Completion event handlers.                *)
(*                                                                         *)
(* Time is counted in integer ticks; one tick is the 1e-6 increment the    *)
(* selection dispatcher adds between re-inserted posts.  Slot, device and  *)
(* heap positions keep the source's 0-based indices.                       *)
(***************************************************************************)
EXTENDS Integers, Sequences, FiniteSets, TLC

(* ------------------------------ bounds -------------------------------- *)
MaxCapacity == 3
MaxDevices == 2
MaxSources == 2
MaxPosts == 6
MaxNow == 2
TapeLen == 7
MaxSteps == 4
MaxTime == 3

(* ------------------------------ state --------------------------------- *)
VARIABLES
    params,        \* SimulationCore.params
    current_time,  \* SimulationCore.current_time
    calendar,      \* SimulationCore.calendar (heap array)
    buffer,        \* SimulationCore.buffer
    pool,          \* SimulationCore.pool
    next_post_id,  \* SimulationCore.next_post_id
    stats,         \* SimulationCore.stats
    log_output,    \* SimulationCore.log_output
    packet,        \* SelectionDispatcher._packet
    rng,           \* number of draws taken from the seeded global generator
    booted,        \* whether the caller has run bootstrap()
    obs            \* observations of the last call (return values, pre-state)

vars == <<params, current_time, calendar, buffer, pool, next_post_id, stats,
          log_output, packet, rng, booted, obs>>

\* With(x, F) names an intermediate value and evaluates it once.
With(x, F(_)) == CHOOSE r \in {F(v) : v \in {x}} : TRUE

(* ------------------------------ Post ---------------------------------- *)
NoPost == [id |-> 0, source_id |-> 0, created_at |-> 0]

Post(id, source_id, created_at) ==
    [id |-> id, source_id |-> source_id, created_at |-> created_at]

(* ------------------------------ Buffer -------------------------------- *)
BufferSlot == [post |-> NoPost, enqueued_at |-> 0]

Buffer(capacity) ==
    [capacity |-> capacity,
     slots |-> [i \in 0..(capacity - 1) |-> BufferSlot],
     last_index |-> -1,
     size |-> 0]

is_full(b) == b.size = b.capacity

is_empty(b) == b.size = 0

\* the for-loop of enqueue_d1031: first empty slot met in k probes from idx
RECURSIVE probe(_, _, _)
probe(b, idx, k) ==
    IF k = 0 THEN -1
    ELSE IF b.slots[idx].post = NoPost THEN idx
    ELSE probe(b, (idx + 1) % b.capacity, k - 1)

\* variant: the probe starts at slot 0 whatever last_index is
enqueue_from_zero(b, post, now) ==
    IF is_full(b) THEN [buf |-> b, ok |-> FALSE]
    ELSE LET idx == probe(b, 0, b.capacity) IN
         IF idx = -1 THEN [buf |-> b, ok |-> FALSE]
         ELSE [buf |-> [b EXCEPT !.slots[idx] = [post |-> post, enqueued_at |-> now],
                                 !.last_index = idx,
                                 !.size = b.size + 1],
               ok |-> TRUE]

enqueue_d1031(b, post, now) ==
    IF is_full(b) THEN [buf |-> b, ok |-> FALSE]
    ELSE LET idx == probe(b, (b.last_index + 1) % b.capacity, b.capacity) IN
         IF idx = -1 THEN [buf |-> b, ok |-> FALSE]
         ELSE [buf |-> [b EXCEPT !.slots[idx] = [post |-> post, enqueued_at |-> now],
                                 !.last_index = idx,
                                 !.size = b.size + 1],
               ok |-> TRUE]

\* the scan of drop_oldest_d10o3; oldest_idx = -1 stands for oldest_t = inf
RECURSIVE scan_oldest(_, _, _, _)
scan_oldest(b, i, oldest_t, oldest_idx) ==
    IF i >= b.capacity THEN oldest_idx
    ELSE IF b.slots[i].post # NoPost
            /\ (oldest_idx = -1 \/ b.slots[i].enqueued_at < oldest_t)
         THEN scan_oldest(b, i + 1, b.slots[i].enqueued_at, i)
         ELSE scan_oldest(b, i + 1, oldest_t, oldest_idx)

\* variant: the strict comparison replaced by <=, so the last of several
\* equally old slots wins
RECURSIVE scan_oldest_last_tie(_, _, _, _)
scan_oldest_last_tie(b, i, oldest_t, oldest_idx) ==
    IF i >= b.capacity THEN oldest_idx
    ELSE IF b.slots[i].post # NoPost
            /\ (oldest_idx = -1 \/ b.slots[i].enqueued_at <= oldest_t)
         THEN scan_oldest_last_tie(b, i + 1, b.slots[i].enqueued_at, i)
         ELSE scan_oldest_last_tie(b, i + 1, oldest_t, oldest_idx)

\* variant: the slot is cleared but size is not decremented
drop_oldest_keeps_size(b) ==
    LET oldest_idx == scan_oldest(b, 0, 0, -1) IN
    IF oldest_idx = -1 THEN [buf |-> b, post |-> NoPost, t |-> 0]
    ELSE [buf |-> [b EXCEPT !.slots[oldest_idx] = BufferSlot],
          post |-> b.slots[oldest_idx].post,
          t |-> b.slots[oldest_idx].enqueued_at]

\* variant: the oldest slot is found through the <= scan
drop_oldest_last_tie(b) ==
    LET oldest_idx == scan_oldest_last_tie(b, 0, 0, -1) IN
    IF oldest_idx = -1 THEN [buf |-> b, post |-> NoPost, t |-> 0]
    ELSE [buf |-> [b EXCEPT !.slots[oldest_idx] = BufferSlot,
                            !.size = b.size - 1],
          post |-> b.slots[oldest_idx].post,
          t |-> b.slots[oldest_idx].enqueued_at]

\* returns the buffer after the call, the dropped post (NoPost for None) and,
\* for the observer, the enqueued_at the dropped slot had
drop_oldest_d10o3(b) ==
    LET oldest_idx == scan_oldest(b, 0, 0, -1) IN
    IF oldest_idx = -1 THEN [buf |-> b, post |-> NoPost, t |-> 0]
    ELSE [buf |-> [b EXCEPT !.slots[oldest_idx] = BufferSlot,
                            !.size = b.size - 1],
          post |-> b.slots[oldest_idx].post,
          t |-> b.slots[oldest_idx].enqueued_at]

\* the scan of pick_lifo_d2b2; newest_t starts at -1.0
RECURSIVE scan_newest(_, _, _, _)
scan_newest(b, i, newest_t, newest_idx) ==
    IF i >= b.capacity THEN newest_idx
    ELSE IF b.slots[i].post # NoPost /\ b.slots[i].enqueued_at > newest_t
         THEN scan_newest(b, i + 1, b.slots[i].enqueued_at, i)
         ELSE scan_newest(b, i + 1, newest_t, newest_idx)

\* variant: newest_t starts at 0.0, so a post enqueued at time 0 is never found
pick_lifo_from_zero(b) ==
    LET newest_idx == scan_newest(b, 0, 0, -1) IN
    IF newest_idx = -1 THEN [buf |-> b, post |-> NoPost, t |-> 0]
    ELSE [buf |-> [b EXCEPT !.slots[newest_idx] = BufferSlot,
                            !.size = b.size - 1],
          post |-> b.slots[newest_idx].post,
          t |-> b.slots[newest_idx].enqueued_at]

pick_lifo_d2b2(b) ==
    LET newest_idx == scan_newest(b, 0, -1, -1) IN
    IF newest_idx = -1 THEN [buf |-> b, post |-> NoPost, t |-> 0]
    ELSE [buf |-> [b EXCEPT !.slots[newest_idx] = BufferSlot,
                            !.size = b.size - 1],
          post |-> b.slots[newest_idx].post,
          t |-> b.slots[newest_idx].enqueued_at]

(* ------------------------------ Device pool --------------------------- *)
Device == [busy |-> FALSE, current_post |-> NoPost]

DevicePool(n) == [devices |-> [i \in 0..(n - 1) |-> Device], cursor |-> 0]

NumDevices(p) == Cardinality(DOMAIN p.devices)

is_free(d) == ~d.busy

complete(p, i) ==
    [pool |-> [p EXCEPT !.devices[i] = [busy |-> FALSE, current_post |-> NoPost]],
     post |-> p.devices[i].current_post]

\* the for-loop of pick_cyclic_d2p2: index of the first free device met from
\* cursor + k, or -1
RECURSIVE pick_scan(_, _)
pick_scan(p, k) ==
    IF k >= NumDevices(p) THEN -1
    ELSE LET i == (p.cursor + k) % NumDevices(p) IN
         IF is_free(p.devices[i]) THEN i ELSE pick_scan(p, k + 1)

\* variant: the cursor is left on the device handed out
pick_cyclic_cursor_on_found(p) ==
    LET i == pick_scan(p, 0) IN
    IF i = -1 THEN [pool |-> p, dev |-> -1]
    ELSE [pool |-> [p EXCEPT !.cursor = i], dev |-> i]

\* dev = -1 stands for None
pick_cyclic_d2p2(p) ==
    LET i == pick_scan(p, 0) IN
    IF i = -1 THEN [pool |-> p, dev |-> -1]
    ELSE [pool |-> [p EXCEPT !.cursor = (i + 1) % NumDevices(p)], dev |-> i]

any_free(p) == \E i \in DOMAIN p.devices : is_free(p.devices[i])

(* ------------------------------ Events and calendar ------------------- *)
ArrivalEvent(time, source) == [time |-> time, kind |-> "Arrival", id |-> source]

CompletionEvent(time, dev_id) == [time |-> time, kind |-> "Completion", id |-> dev_id]

\* variant: the comparison is turned around
lt_reversed(a, b) == a.time > b.time

\* Event.__lt__
lt(a, b) == a.time < b.time

\* heapq._siftdown on the heap array (position pos is index pos + 1)
RECURSIVE siftdown(_, _, _, _)
siftdown(h0, startpos, pos, newitem) ==
    With(h0, LAMBDA heap :
    IF pos > startpos
    THEN LET parentpos == (pos - 1) \div 2
             parent == heap[parentpos + 1]
         IN  IF lt(newitem, parent)
             THEN siftdown([heap EXCEPT ![pos + 1] = parent], startpos, parentpos, newitem)
             ELSE [heap EXCEPT ![pos + 1] = newitem]
    ELSE [heap EXCEPT ![pos + 1] = newitem])

\* heapq._siftup: bubble the smaller child up to the leaf, then sift newitem down
RECURSIVE siftup_walk(_, _, _)
siftup_walk(h0, pos, newitem) ==
    With(h0, LAMBDA heap :
    LET endpos == Len(heap)
        childpos == 2 * pos + 1
        rightpos == childpos + 1
        c == IF rightpos < endpos /\ ~lt(heap[childpos + 1], heap[rightpos + 1])
             THEN rightpos ELSE childpos
    IN  IF childpos < endpos
        THEN siftup_walk([heap EXCEPT ![pos + 1] = heap[c + 1]], c, newitem)
        ELSE [heap |-> [heap EXCEPT ![pos + 1] = newitem], pos |-> pos])

siftup(heap, pos) ==
    LET w == siftup_walk(heap, pos, heap[pos + 1])
    IN  siftdown(w.heap, pos, w.pos, heap[pos + 1])

heappush(heap, item) ==
    LET h == Append(heap, item) IN siftdown(h, 0, Len(h) - 1, item)

\* variant: list.pop() alone, the last element instead of the smallest
heappop_last(heap) ==
    [item |-> heap[Len(heap)], heap |-> SubSeq(heap, 1, Len(heap) - 1)]

\* defined on a non-empty heap
heappop(heap) ==
    LET lastelt == heap[Len(heap)]
        rest == SubSeq(heap, 1, Len(heap) - 1)
    IN  IF rest # <<>>
        THEN [item |-> heap[1], heap |-> siftup([rest EXCEPT ![1] = lastelt], 0)]
        ELSE [item |-> lastelt, heap |-> rest]

(* ------------------------------ Random laws --------------------------- *)
Pow2(n) == 2 ^ n

\* random.random() after random.seed(seed): the stream is a function of the
\* seed alone; its values are quantised to a low (0) and a high (1) draw and
\* the seed's binary digits spell the stream
random_random(seed, pos) == (seed \div Pow2(pos % TapeLen)) % 2

\* UniformInterarrival.next_delay: random.uniform(a, b) = a + (b - a) * u
next_delay(i32, u) == i32[1] + (i32[2] - i32[1]) * u

\* -log(1 - u) on the quantised draw: a short and a long service
neg_log(u) == 1 + 2 * u

\* ExponentialService.next_service_time
next_service_time(lambd, u) == IF lambd > 0 THEN neg_log(u) \div lambd ELSE 0

(* ------------------------------ SimulationCore ------------------------ *)
\* The handlers below run on a record s of the core's fields and return the
\* record after the call.
Eps == 1

NoPacket == [source_id |-> 0, posts |-> <<>>]

Packet(source_id, posts) == [source_id |-> source_id, posts |-> posts]

NoFormed ==
    [formed |-> FALSE, before |-> Buffer(0), src |-> 0, same |-> <<>>,
     other |-> <<>>, now |-> 0]

\* what the observer keeps of the eviction made in the last step
NoEvict ==
    [happened |-> FALSE, post |-> NoPost, t |-> 0, before |-> Buffer(0),
     after |-> Buffer(0)]

\* what the observer keeps of the AcceptedResult of the last handle_publish
NoRes ==
    [called |-> FALSE, status |-> 0, queued |-> FALSE, evicted_post_id |-> 0,
     assigned_device_id |-> -1, placed |-> FALSE]

Stats0 == [generated |-> 0, queued |-> 0, served |-> 0, evicted |-> 0, direct |-> 0]

\* the next value of the seeded generator, and the core after taking it
draw(s) == random_random(s.params.seed, s.rng)

drawn(s) == [s EXCEPT !.rng = @ + 1]

log(sim, evtype, data) ==
    With(sim, LAMBDA s :
        [s EXCEPT !.log_output = Append(@, <<evtype, s.current_time, data>>)])

schedule(s, ev) == [s EXCEPT !.calendar = heappush(@, ev)]

\* Device.start_process: marks the device busy and draws a service time
\* (which its callers discard)
start_process(s, i, post) ==
    [sim |-> drawn([s EXCEPT !.pool.devices[i] = [busy |-> TRUE, current_post |-> post]]),
     t |-> next_service_time(s.params.lambda, draw(s))]

(* ------------------------------ PlacementDispatcher ------------------- *)
\* variant: a full buffer is left as it is
evict_if_full_never(s) == [sim |-> s, evicted_post_id |-> 0]

\* variant: the full buffer gives up its newest post
evict_newest_if_full(s) ==
    With(pick_lifo_d2b2(s.buffer), LAMBDA d :
        IF is_full(s.buffer) /\ d.post # NoPost
        THEN [sim |-> log([s EXCEPT !.buffer = d.buf, !.stats.evicted = @ + 1,
                                    !.obs.evict = [happened |-> TRUE, post |-> d.post,
                                                   t |-> d.t, before |-> s.buffer,
                                                   after |-> d.buf]],
                          "BUFFER_EVICT",
                          [post |-> d.post.id, source |-> d.post.source_id]),
              evicted_post_id |-> d.post.id]
        ELSE [sim |-> s, evicted_post_id |-> 0])

\* variant: the oldest post is dropped and logged, but evicted is not counted
evict_if_full_uncounted(s) ==
    With(drop_oldest_d10o3(s.buffer), LAMBDA d :
        IF is_full(s.buffer) /\ d.post # NoPost
        THEN [sim |-> log([s EXCEPT !.buffer = d.buf,
                                    !.obs.evict = [happened |-> TRUE, post |-> d.post,
                                                   t |-> d.t, before |-> s.buffer,
                                                   after |-> d.buf]],
                          "BUFFER_EVICT",
                          [post |-> d.post.id, source |-> d.post.source_id]),
              evicted_post_id |-> d.post.id]
        ELSE [sim |-> s, evicted_post_id |-> 0])

\* lines 235-245: evict the oldest post when the buffer is full
evict_if_full(s) ==
    With(drop_oldest_d10o3(s.buffer), LAMBDA d :
        IF is_full(s.buffer) /\ d.post # NoPost
        THEN [sim |-> log([s EXCEPT !.buffer = d.buf, !.stats.evicted = @ + 1,
                                    !.obs.evict = [happened |-> TRUE, post |-> d.post,
                                                   t |-> d.t, before |-> s.buffer,
                                                   after |-> d.buf]],
                          "BUFFER_EVICT",
                          [post |-> d.post.id, source |-> d.post.source_id]),
              evicted_post_id |-> d.post.id]
        ELSE [sim |-> s, evicted_post_id |-> 0])

\* lines 235-254: buffer admission
admit(s, post, now) ==
    With(evict_if_full(s), LAMBDA r :
    With(enqueue_d1031(r.sim.buffer, post, now), LAMBDA e :
        [sim |-> IF e.ok
                 THEN log([r.sim EXCEPT !.buffer = e.buf], "BUFFER_ENQUEUE",
                          [post |-> post.id, source |-> post.source_id,
                           last_index |-> e.buf.last_index])
                 ELSE r.sim,
         status |-> IF e.ok THEN 202 ELSE 500,
         queued |-> e.ok,
         evicted_post_id |-> r.evicted_post_id,
         assigned_device_id |-> -1]))

\* lines 223-233: direct placement on the device pick_cyclic returned
assign_direct(s, pk, post) ==
    [sim |-> log(start_process([s EXCEPT !.pool = pk.pool], pk.dev, post).sim,
                 "ASSIGN_TO_DEVICE",
                 [post |-> post.id, source |-> post.source_id, device |-> pk.dev]),
     status |-> 202, queued |-> FALSE,
     evicted_post_id |-> 0, assigned_device_id |-> pk.dev]

handle_publish(s, post, now) ==
    With(pick_cyclic_d2p2(s.pool), LAMBDA pk :
        IF s.params.direct /\ pk.dev # -1
        THEN assign_direct(s, pk, post)
        ELSE admit(s, post, now))

(* ------------------------------ SelectionDispatcher ------------------- *)
\* lines 279-283: pull every remaining post, newest first
RECURSIVE pull_rest(_, _)
pull_rest(b, pulled) ==
    IF is_empty(b) THEN [buf |-> b, pulled |-> pulled]
    ELSE With(pick_lifo_d2b2(b), LAMBDA r :
             IF r.post = NoPost THEN [buf |-> b, pulled |-> pulled]
             ELSE pull_rest(r.buf, Append(pulled, r.post)))

\* variant: the loop stops one post early, other[1] is not put back
RECURSIVE reinsert_all_but_one(_, _, _, _, _)
reinsert_all_but_one(s, other, k, t, src) ==
    IF k <= 1 THEN s
    ELSE reinsert_all_but_one(
             log([s EXCEPT !.buffer = enqueue_d1031(@, other[k], t).buf],
                 "BUFFER_ENQUEUE",
                 [post |-> other[k].id, source |-> other[k].source_id,
                  packet_source |-> src]),
             other, k - 1, t + Eps, src)

\* variant: the loop runs over other in pull order, other[1] first; k counts
\* the posts still to go
RECURSIVE reinsert_forward(_, _, _, _, _)
reinsert_forward(s, other, k, t, src) ==
    IF k = 0 THEN s
    ELSE With(other[Len(other) - k + 1], LAMBDA p :
             reinsert_forward(
                 log([s EXCEPT !.buffer = enqueue_d1031(@, p, t).buf],
                     "BUFFER_ENQUEUE",
                     [post |-> p.id, source |-> p.source_id, packet_source |-> src]),
                 other, k - 1, t + Eps, src))

\* lines 288-296: re-insert other[k], other[k-1], ..., other[1] at t, t+Eps, ...
RECURSIVE reinsert(_, _, _, _, _)
reinsert(s, other, k, t, src) ==
    IF k = 0 THEN s
    ELSE reinsert(log([s EXCEPT !.buffer = enqueue_d1031(@, other[k], t).buf],
                      "BUFFER_ENQUEUE",
                      [post |-> other[k].id, source |-> other[k].source_id,
                       packet_source |-> src]),
                  other, k - 1, t + Eps, src)

\* lines 285-304: split the pulled posts, put the others back, keep the packet
split_pulled(s, before, r, src, now) ==
    With(SelectSeq(r.pulled, LAMBDA p : p.source_id = src), LAMBDA same :
    With(SelectSeq(r.pulled, LAMBDA p : p.source_id # src), LAMBDA other :
        log([reinsert([s EXCEPT !.buffer = r.buf], other, Len(other), now, src)
                EXCEPT !.packet = Packet(src, same),
                       !.obs.formed = [formed |-> TRUE, before |-> before,
                                       src |-> src, same |-> same,
                                       other |-> other, now |-> now]],
            "PACKET_FORMED",
            [source |-> src, post |-> same[Len(same)].id, packet_size |-> Len(same)])))

\* lines 266-304, entered when no packet is in flight; f is the seed pick
form_packet(s, f, now) ==
    split_pulled(log(s, "BUFFER_PICK",
                     [post |-> f.post.id, source |-> f.post.source_id]),
                 s.buffer, pull_rest(f.buf, <<f.post>>), f.post.source_id, now)

\* variant: the post is read from the packet's end but not popped
dispatch_one_keeps_post(s, pk) ==
    With(s.packet.posts[Len(s.packet.posts)], LAMBDA post :
        log(start_process([s EXCEPT !.pool = pk.pool], pk.dev, post).sim,
            "SERVICE_START",
            [post |-> post.id, source |-> post.source_id, device |-> pk.dev]))

\* lines 310-317: the last post of the packet starts on device pk.dev
dispatch_one(s, pk) ==
    With(s.packet.posts[Len(s.packet.posts)], LAMBDA post :
        log(start_process([s EXCEPT !.pool = pk.pool,
                                    !.packet.posts = SubSeq(@, 1, Len(@) - 1)],
                          pk.dev, post).sim,
            "SERVICE_START",
            [post |-> post.id, source |-> post.source_id, device |-> pk.dev]))

\* lines 306-317: feed the packet, from its end, to the free devices
RECURSIVE dispatch(_)
dispatch(sim) ==
    With(sim, LAMBDA s :
        IF s.packet # NoPacket /\ s.packet.posts # <<>>
        THEN With(pick_cyclic_d2p2(s.pool), LAMBDA pk :
                 IF pk.dev = -1 THEN s ELSE dispatch(dispatch_one(s, pk)))
        ELSE s)

\* lines 319-320
clear_if_empty(sim) ==
    With(sim, LAMBDA s :
        IF s.packet # NoPacket /\ s.packet.posts = <<>>
        THEN [s EXCEPT !.packet = NoPacket]
        ELSE s)

\* variant: a new packet is formed whenever the buffer holds a post, also
\* while the current packet still has posts
on_device_freed_always_forms(sim, now) ==
    With(sim, LAMBDA s :
    With(pick_lifo_d2b2(s.buffer), LAMBDA f :
        IF f.post = NoPost THEN clear_if_empty(dispatch(s))
        ELSE clear_if_empty(dispatch(form_packet(s, f, now)))))

\* variant: the waiting packet is fed to the devices, but no packet is ever
\* formed from the buffer
on_device_freed_dispatch_only(sim, now) == clear_if_empty(dispatch(sim))

on_device_freed(sim, now) ==
    With(sim, LAMBDA s :
        IF s.packet = NoPacket \/ s.packet.posts = <<>>
        THEN With(pick_lifo_d2b2(s.buffer), LAMBDA f :
                 IF f.post = NoPost THEN s
                 ELSE clear_if_empty(dispatch(form_packet(s, f, now))))
        ELSE clear_if_empty(dispatch(s)))

(* ------------------------------ Event handlers ------------------------ *)
\* variant: the scan takes device ids to start at 1
has_completion_one_based(cal, i) ==
    \E k \in 1..Len(cal) : cal[k].kind = "Completion" /\ cal[k].id = i + 1

has_completion(cal, i) ==
    \E k \in 1..Len(cal) : cal[k].kind = "Completion" /\ cal[k].id = i

\* variant: the scan of the calendar is left out, every busy device gets one more
RECURSIVE ensure_completions_unchecked(_, _, _)
ensure_completions_unchecked(sim, i, now) ==
    With(sim, LAMBDA s :
        IF i >= NumDevices(s.pool) THEN s
        ELSE IF s.pool.devices[i].busy
             THEN ensure_completions_unchecked(
                      schedule(drawn(s),
                               CompletionEvent(now + next_service_time(s.params.lambda, draw(s)), i)),
                      i + 1, now)
             ELSE ensure_completions_unchecked(s, i + 1, now))

\* lines 367-376 and 401-410: a Completion for every busy device that has none
RECURSIVE ensure_completions(_, _, _)
ensure_completions(sim, i, now) ==
    With(sim, LAMBDA s :
        IF i >= NumDevices(s.pool) THEN s
        ELSE IF s.pool.devices[i].busy /\ ~has_completion(s.calendar, i)
             THEN ensure_completions(
                      schedule(drawn(s),
                               CompletionEvent(now + next_service_time(s.params.lambda, draw(s)), i)),
                      i + 1, now)
             ELSE ensure_completions(s, i + 1, now))

\* lines 340-350: the clock, the new post, the generated counter
arrive(s, post, ev) ==
    log([s EXCEPT !.current_time = ev.time,
                  !.next_post_id = @ + 1,
                  !.stats.generated = @ + 1,
                  !.obs.all_free = @ /\ any_free(s.pool)],
        "ARRIVAL", [post |-> post.id, source |-> post.source_id])

\* the result handle_publish returned for post, and whether post is in a slot
placement_seen(res, post) ==
    [res EXCEPT !.sim.obs.res =
        [called |-> TRUE, status |-> res.status, queued |-> res.queued,
         evicted_post_id |-> res.evicted_post_id,
         assigned_device_id |-> res.assigned_device_id,
         placed |-> \E i \in DOMAIN res.sim.buffer.slots :
                       res.sim.buffer.slots[i].post = post]]

\* lines 354-355
count_queued(res) ==
    IF res.queued THEN [res.sim EXCEPT !.stats.queued = @ + 1] ELSE res.sim

\* variant: the next Arrival carries the post's id in place of the source
schedule_next_arrival_by_post(s, ev) ==
    schedule(drawn(s),
             ArrivalEvent(ev.time + next_delay(s.params.i32, draw(s)), s.next_post_id - 1))

\* lines 357-358
schedule_next_arrival(s, ev) ==
    schedule(drawn(s), ArrivalEvent(ev.time + next_delay(s.params.i32, draw(s)), ev.id))

\* variant: no Completion is scheduled for a post placed directly
schedule_direct_completion_skipped(s, res, ev) == s

\* lines 360-363
schedule_direct_completion(s, res, ev) ==
    IF res.assigned_device_id # -1
    THEN schedule(drawn(s),
                  CompletionEvent(ev.time + next_service_time(s.params.lambda, draw(s)),
                                  res.assigned_device_id))
    ELSE s

\* variant: no opportunistic selection after an arrival
select_if_idle_skipped(s, ev) == s

\* variant: the Selection Dispatcher is called without asking for a free device
select_if_idle_unguarded(s, ev) ==
    IF (~s.params.direct) /\ (~is_empty(s.buffer))
    THEN ensure_completions(on_device_freed(s, ev.time), 0, ev.time)
    ELSE s

\* lines 365-376
select_if_idle(s, ev) ==
    IF (~s.params.direct) /\ (~is_empty(s.buffer)) /\ any_free(s.pool)
    THEN ensure_completions(on_device_freed(s, ev.time), 0, ev.time)
    ELSE s

ArrivalEvent_process(s, ev) ==
    With(Post(s.next_post_id, ev.id, ev.time), LAMBDA post :
    With(arrive(s, post, ev), LAMBDA a :
    With(handle_publish(a, post, ev.time), LAMBDA hp :
    With(placement_seen(hp, post), LAMBDA res :
    With(count_queued(res), LAMBDA q :
    With(schedule_next_arrival(q, ev), LAMBDA n :
    With(schedule_direct_completion(n, res, ev), LAMBDA c :
        select_if_idle(c, ev))))))))

\* lines 385-397
free_device(s, c, ev) ==
    log([s EXCEPT !.current_time = ev.time,
                  !.pool = c.pool,
                  !.stats.served = IF c.post # NoPost THEN @ + 1 ELSE @],
        "SERVICE_COMPLETE",
        [post |-> c.post.id, source |-> c.post.source_id, device |-> ev.id])

CompletionEvent_process(s, ev) ==
    ensure_completions(
        on_device_freed(free_device(s, complete(s.pool, ev.id), ev), ev.time),
        0, ev.time)

(* ------------------------------ step and run_automatic --------------- *)
\* Event.process of the popped event
process(s, ev) ==
    IF ev.kind = "Arrival" THEN ArrivalEvent_process(s, ev)
    ELSE CompletionEvent_process(s, ev)

\* SimulationCore.step: [sim, ok], ok = FALSE on an empty calendar
step(s) ==
    IF s.calendar = <<>> THEN [sim |-> s, ok |-> FALSE]
    ELSE With(heappop(s.calendar), LAMBDA h :
             [sim |-> process([s EXCEPT !.calendar = h.heap], h.item), ok |-> TRUE])

\* the summary record run_automatic returns
summary(s) ==
    [generated |-> s.stats.generated, queued |-> s.stats.queued,
     served |-> s.stats.served, evicted |-> s.stats.evicted,
     direct |-> s.stats.direct,
     reject_pct |-> IF s.stats.generated > 0
                    THEN (s.stats.evicted * 100) \div s.stats.generated ELSE 0,
     final_time |-> s.current_time,
     buffer_capacity |-> s.params.buffer]

\* run_automatic(max_steps, max_time): step until the budget is used up, the
\* calendar is empty or the next event lies after max_time; n counts the steps
RECURSIVE run_automatic(_, _, _, _)
run_automatic(s, max_steps, max_time, n) ==
    IF n >= max_steps \/ s.calendar = <<>> \/ s.calendar[1].time > max_time
    THEN [sim |-> s, steps |-> n, ret |-> summary(s)]
    ELSE run_automatic(step(s).sim, max_steps, max_time, n + 1)

NoAuto == [called |-> FALSE, max_steps |-> 0, max_time |-> 0, steps |-> 0,
           ret |-> [generated |-> 0]]

(* ------------------------------ Construction -------------------------- *)
\* what the observer remembers of the calls made so far
Obs0 ==
    [op |-> "init", ok |-> FALSE, ret |-> NoPost, ret_t |-> 0, dev |-> -1,
     before |-> Buffer(0), run |-> <<>>, run0 |-> 0, active |-> FALSE,
     formed |-> NoFormed, res |-> NoRes, evict |-> NoEvict, auto |-> NoAuto,
     all_free |-> TRUE, step_ret |-> TRUE,
     pass |-> 1, n |-> 0, ref |-> <<>>, ref_log |-> <<>>]

\* variant: the constructor does not call random.seed
SimulationCore_unseeded(p, g, o) ==
    [params |-> p,
     current_time |-> 0,
     calendar |-> <<>>,
     buffer |-> Buffer(p.buffer),
     pool |-> DevicePool(p.devices),
     next_post_id |-> 1,
     stats |-> Stats0,
     log_output |-> <<>>,
     packet |-> NoPacket,
     rng |-> g,
     obs |-> o]

\* SimulationCore.__init__; g is where the process-wide generator stands when
\* the constructor is entered, and random.seed(seed) rewinds it
SimulationCore(p, g, o) ==
    [params |-> p,
     current_time |-> 0,
     calendar |-> <<>>,
     buffer |-> Buffer(p.buffer),
     pool |-> DevicePool(p.devices),
     next_post_id |-> 1,
     stats |-> Stats0,
     log_output |-> <<>>,
     packet |-> NoPacket,
     rng |-> 0,
     obs |-> o]

\* SimulationCore.bootstrap
RECURSIVE bootstrap(_, _)
bootstrap(s, src) ==
    IF src > s.params.sources THEN s
    ELSE bootstrap(schedule(s, ArrivalEvent(0, src)), src + 1)

Sim ==
    [params |-> params, current_time |-> current_time, calendar |-> calendar,
     buffer |-> buffer, pool |-> pool, next_post_id |-> next_post_id,
     stats |-> stats, log_output |-> log_output, packet |-> packet,
     rng |-> rng, obs |-> obs]

Install(sim) ==
    \E s \in {sim} :
    /\ params' = s.params
    /\ current_time' = s.current_time
    /\ calendar' = s.calendar
    /\ buffer' = s.buffer
    /\ pool' = s.pool
    /\ next_post_id' = s.next_post_id
    /\ stats' = s.stats
    /\ log_output' = s.log_output
    /\ packet' = s.packet
    /\ rng' = s.rng
    /\ obs' = s.obs

Start(s) ==
    /\ params = s.params
    /\ current_time = s.current_time
    /\ calendar = s.calendar
    /\ buffer = s.buffer
    /\ pool = s.pool
    /\ next_post_id = s.next_post_id
    /\ stats = s.stats
    /\ log_output = s.log_output
    /\ packet = s.packet
    /\ rng = s.rng
    /\ obs = s.obs

Seeds == 0..(Pow2(TapeLen) - 1)

Configs(capacities, devices, sources, directs, seeds) ==
    [buffer : capacities, devices : devices, sources : sources,
     i32 : {<<1, 2>>}, lambda : {1}, direct : directs, seed : seeds]

Init ==
    /\ \E p \in Configs(1..MaxCapacity, 1..MaxDevices, 1..MaxSources, BOOLEAN, Seeds) :
          Start(SimulationCore(p, 0, Obs0))
    /\ booted = FALSE

(* ------------------------------ Simulation steps ---------------------- *)
\* the caller's sim.bootstrap() right after construction
Bootstrap ==
    /\ ~booted
    /\ booted' = TRUE
    /\ Install(bootstrap([Sim EXCEPT !.obs.op = "bootstrap"], 1))

\* what the observer notes after a step that processed an event
noted(sim) ==
    With(sim, LAMBDA s :
        [s EXCEPT !.obs.op = "step", !.obs.step_ret = TRUE, !.obs.n = @ + 1,
                  !.obs.ref = IF s.obs.pass = 1
                              THEN Append(@, [len |-> Len(s.log_output), stats |-> s.stats])
                              ELSE @])

\* a second pass replays no more steps than the first pass took
MayStep == obs.pass = 2 => obs.n < Len(obs.ref)

\* SimulationCore.step on an empty calendar
StepEmpty ==
    /\ calendar = <<>>
    /\ obs.step_ret
    /\ obs' = [obs EXCEPT !.op = "step", !.step_ret = FALSE]
    /\ UNCHANGED <<params, current_time, calendar, buffer, pool, next_post_id,
                   stats, log_output, packet, rng, booted>>

\* SimulationCore.step popping an Arrival
StepArrival ==
    /\ calendar # <<>>
    /\ heappop(calendar).item.kind = "Arrival"
    /\ next_post_id <= MaxPosts
    /\ MayStep
    /\ Install(noted(ArrivalEvent_process(
           [Sim EXCEPT !.calendar = heappop(calendar).heap, !.obs.formed = NoFormed,
                       !.obs.res = NoRes, !.obs.evict = NoEvict],
           heappop(calendar).item)))
    /\ UNCHANGED booted

\* SimulationCore.step popping a Completion
StepCompletion ==
    /\ calendar # <<>>
    /\ heappop(calendar).item.kind = "Completion"
    /\ MayStep
    /\ Install(noted(CompletionEvent_process(
           [Sim EXCEPT !.calendar = heappop(calendar).heap, !.obs.formed = NoFormed,
                       !.obs.res = NoRes, !.obs.evict = NoEvict],
           heappop(calendar).item)))
    /\ UNCHANGED booted

Next == Bootstrap \/ StepEmpty \/ StepArrival \/ StepCompletion

Spec == Init /\ [][Next]_vars

(* ------------------------------ Steps that keep being taken ----------- *)
\* the caller goes on calling step(): a step that can be taken is taken
InitLive ==
    /\ \E p \in Configs({1, MaxCapacity}, 1..MaxDevices, 1..MaxSources, BOOLEAN,
                         0..(Pow2(MaxSteps) - 1)) :
          Start(SimulationCore(p, 0, Obs0))
    /\ booted = FALSE

SpecLive == InitLive /\ [][Next]_vars /\ WF_vars(Next)

(* ------------------------------ Two runs of one configuration --------- *)
\* The caller builds a new core from the same parameters (App.run_auto does so
\* on every press of the button) after the first run took obs.n steps.
Reconstruct ==
    /\ obs.pass = 1
    /\ obs.n >= 1
    /\ booted' = FALSE
    /\ Install(SimulationCore(params, rng,
                   [Obs0 EXCEPT !.op = "construct", !.pass = 2,
                                !.ref = obs.ref, !.ref_log = log_output]))

NextDet == Next \/ Reconstruct

SpecDet == Init /\ [][NextDet]_vars

(* ------------------------------ The automatic run --------------------- *)
\* App.run_auto: construct, bootstrap, run_automatic(max_steps, max_time); the
\* call is also made on a core that was not bootstrapped
RunAutomatic ==
    \E max_steps \in 0..MaxSteps, max_time \in 0..MaxTime :
        /\ obs.op \in {"init", "bootstrap"}
        /\ \E r \in {run_automatic(Sim, max_steps, max_time, 0)} :
               Install([r.sim EXCEPT !.obs.op = "run_automatic",
                                     !.obs.auto = [called |-> TRUE,
                                                   max_steps |-> max_steps,
                                                   max_time |-> max_time,
                                                   steps |-> r.steps,
                                                   ret |-> r.ret]])
        /\ UNCHANGED booted

\* the smallest and the largest buffer; seeds that differ in the draws a run
\* of MaxSteps steps starts with
InitAuto ==
    /\ \E p \in Configs({1, MaxCapacity}, 1..MaxDevices, 1..MaxSources, BOOLEAN,
                         0..(Pow2(MaxSteps) - 1)) :
          Start(SimulationCore(p, 0, Obs0))
    /\ booted = FALSE

NextAuto == Bootstrap \/ RunAutomatic

SpecAuto == InitAuto /\ [][NextAuto]_vars

(* ------------------------------ The buffer on its own ----------------- *)
\* Any sequence of enqueue / drop_oldest / pick_newest calls on a buffer of
\* capacity 0..MaxCapacity; obs keeps the buffer before the call, what the call
\* returned, and the results of the current run of successive picks.
InitBuffer ==
    /\ \E p \in Configs(0..MaxCapacity, {1}, {1}, {FALSE}, {0}) :
          Start(SimulationCore(p, 0, Obs0))
    /\ booted = FALSE

\* the buffer never reads a post's source: posts take the sources in turn
BufferEnqueue ==
    \E src \in {1 + (next_post_id % MaxSources)}, now \in 0..MaxNow :
        /\ next_post_id <= MaxPosts
        /\ buffer' = enqueue_d1031(buffer, Post(next_post_id, src, now), now).buf
        /\ next_post_id' = next_post_id + 1
        /\ obs' = [obs EXCEPT !.op = "enqueue",
                              !.ok = enqueue_d1031(buffer, Post(next_post_id, src, now), now).ok,
                              !.ret = Post(next_post_id, src, now), !.ret_t = now,
                              !.before = buffer, !.run = <<>>, !.run0 = 0]
        /\ UNCHANGED <<params, current_time, calendar, pool, stats, log_output,
                       packet, rng, booted>>

BufferDropOldest ==
    /\ buffer' = drop_oldest_d10o3(buffer).buf
    /\ obs' = [obs EXCEPT !.op = "drop_oldest",
                          !.ret = drop_oldest_d10o3(buffer).post,
                          !.ret_t = drop_oldest_d10o3(buffer).t,
                          !.before = buffer, !.run = <<>>, !.run0 = 0]
    /\ UNCHANGED <<params, current_time, calendar, pool, next_post_id, stats,
                   log_output, packet, rng, booted>>

Occupied(b) == {i \in DOMAIN b.slots : b.slots[i].post # NoPost}

\* a run of picks goes on for one call after the buffer has run empty
BufferPickNewest ==
    /\ obs.op = "pick_newest" => Len(obs.run) <= obs.run0
    /\ buffer' = pick_lifo_d2b2(buffer).buf
    /\ obs' = [obs EXCEPT !.op = "pick_newest",
                          !.ret = pick_lifo_d2b2(buffer).post,
                          !.ret_t = pick_lifo_d2b2(buffer).t,
                          !.before = buffer,
                          !.run = Append(IF obs.op = "pick_newest" THEN @ ELSE <<>>,
                                         [post |-> pick_lifo_d2b2(buffer).post,
                                          t |-> pick_lifo_d2b2(buffer).t]),
                          !.run0 = IF obs.op = "pick_newest" THEN @
                                   ELSE Cardinality(Occupied(buffer))]
    /\ UNCHANGED <<params, current_time, calendar, pool, next_post_id, stats,
                   log_output, packet, rng, booted>>

NextBuffer == BufferEnqueue \/ BufferDropOldest \/ BufferPickNewest

SpecBuffer == InitBuffer /\ [][NextBuffer]_vars

(* ------------------------------ The device pool on its own ------------ *)
\* Any sequence of pick_free calls (the caller starting the returned device
\* or not) and completions; obs.run keeps the devices returned since a pick
\* that found every device free, with no completion in between.
InitPool ==
    /\ \E p \in Configs({1}, 1..MaxDevices, {1}, {FALSE}, {0}) :
          Start(SimulationCore(p, 0, Obs0))
    /\ booted = FALSE

AllFree(p) == \A i \in DOMAIN p.devices : is_free(p.devices[i])

picked(o, p, dev) ==
    IF (~o.active \/ Len(o.run) >= NumDevices(p)) /\ AllFree(p)
    THEN [o EXCEPT !.op = "pick_free", !.dev = dev, !.active = TRUE,
                   !.run = <<dev>>, !.run0 = p.cursor]
    ELSE IF o.active /\ Len(o.run) < NumDevices(p)
    THEN [o EXCEPT !.op = "pick_free", !.dev = dev, !.run = Append(@, dev)]
    ELSE [o EXCEPT !.op = "pick_free", !.dev = dev, !.active = FALSE,
                   !.run = <<>>, !.run0 = 0]

PoolPick ==
    /\ pool' = pick_cyclic_d2p2(pool).pool
    /\ obs' = picked(obs, pool, pick_cyclic_d2p2(pool).dev)
    /\ UNCHANGED <<params, current_time, calendar, buffer, next_post_id, stats,
                   log_output, packet, rng, booted>>

PoolPickAndStart ==
    /\ next_post_id <= MaxPosts
    /\ pick_cyclic_d2p2(pool).dev # -1
    /\ Install([start_process([Sim EXCEPT !.pool = pick_cyclic_d2p2(pool).pool],
                              pick_cyclic_d2p2(pool).dev,
                              Post(next_post_id, 1, 0)).sim
                   EXCEPT !.next_post_id = @ + 1,
                          !.obs = picked(obs, pool, pick_cyclic_d2p2(pool).dev)])
    /\ UNCHANGED booted

PoolComplete ==
    \E i \in DOMAIN pool.devices :
        /\ pool.devices[i].busy
        /\ pool' = complete(pool, i).pool
        /\ obs' = [obs EXCEPT !.op = "complete", !.dev = i, !.active = FALSE,
                              !.run = <<>>, !.run0 = 0,
                              !.ret = complete(pool, i).post]
        /\ UNCHANGED <<params, current_time, calendar, buffer, next_post_id, stats,
                       log_output, packet, rng, booted>>

NextPool == PoolPick \/ PoolPickAndStart \/ PoolComplete

SpecPool == InitPool /\ [][NextPool]_vars

(* ====================================================================== *)
(* Properties                                                             *)
(* ====================================================================== *)

(* C1: after every enqueue, drop_oldest and pick_newest call on a buffer of *)
(* any capacity, 0 <= size <= capacity and size is the number of slots     *)
(* that hold a post.                                                       *)
C1_BufferInvariant ==
    /\ 0 <= buffer.size
    /\ buffer.size <= buffer.capacity
    /\ buffer.size = Cardinality(Occupied(buffer))

\* a drop_oldest on a full buffer of two or more slots has just run
C1_Witness ==
    /\ obs.op = "drop_oldest"
    /\ obs.before.capacity >= 2
    /\ obs.before.size = obs.before.capacity
    /\ buffer.size = buffer.capacity - 1

(* C4: drop_oldest on a non-empty buffer removes an occupied slot whose    *)
(* enqueued_at is minimal among the occupied slots, the lowest slot index  *)
(* among ties, so that no remaining occupied slot is older than the        *)
(* evicted one; on an empty buffer it returns None and changes nothing.    *)
C4_DropOldestCorrect ==
    obs.op = "drop_oldest" =>
        IF Occupied(obs.before) = {}
        THEN obs.ret = NoPost /\ buffer = obs.before
        ELSE \E i \in Occupied(obs.before) :
                /\ obs.ret = obs.before.slots[i].post
                /\ obs.ret_t = obs.before.slots[i].enqueued_at
                /\ \A j \in Occupied(obs.before) :
                      /\ obs.before.slots[j].enqueued_at >= obs.before.slots[i].enqueued_at
                      /\ obs.before.slots[j].enqueued_at = obs.before.slots[i].enqueued_at
                            => j >= i
                /\ buffer.slots = [obs.before.slots EXCEPT ![i] = BufferSlot]
                /\ buffer.size = obs.before.size - 1
                /\ buffer.last_index = obs.before.last_index
                /\ \A j \in Occupied(buffer) : buffer.slots[j].enqueued_at >= obs.ret_t

\* a drop_oldest has just chosen between two equally old slots
C4_Witness ==
    /\ obs.op = "drop_oldest"
    /\ obs.ret # NoPost
    /\ \E j \in Occupied(buffer) : buffer.slots[j].enqueued_at = obs.ret_t

(* C5: on a buffer with N occupied slots, N successive pick_newest calls   *)
(* return N distinct posts in non-increasing enqueued_at order and leave   *)
(* the buffer empty; call N+1 returns None.                                *)
C5_PickNewestDrains ==
    obs.op = "pick_newest" =>
        /\ \A j \in 1..Len(obs.run) :
              (j <= obs.run0) <=> (obs.run[j].post # NoPost)
        /\ \A j, k \in 1..Len(obs.run) :
              (j < k /\ k <= obs.run0) =>
                  /\ obs.run[j].t >= obs.run[k].t
                  /\ obs.run[j].post # obs.run[k].post
        /\ Len(obs.run) >= obs.run0 => (Occupied(buffer) = {} /\ is_empty(buffer))

\* three picks on a buffer of two posts of different age: the newer, the older, None
C5_Witness ==
    /\ obs.op = "pick_newest"
    /\ obs.run0 = 2
    /\ Len(obs.run) = 3
    /\ obs.run[1].t > obs.run[2].t
    /\ obs.run[3].post = NoPost

(* C7: with all n devices free and no completion in between, n successive  *)
(* pick_free calls return the devices in cyclic index order from the       *)
(* cursor value before the first call, each once, and the cursor ends      *)
(* where it started.                                                       *)
C7_RoundRobin ==
    obs.active =>
        /\ Len(obs.run) <= NumDevices(pool)
        /\ \A j \in 1..Len(obs.run) :
              obs.run[j] = (obs.run0 + j - 1) % NumDevices(pool)
        /\ Cardinality({obs.run[j] : j \in 1..Len(obs.run)}) = Len(obs.run)
        /\ Len(obs.run) = NumDevices(pool) => pool.cursor = obs.run0

\* a full cycle over two or more devices that did not start at device 0
C7_Witness ==
    /\ obs.active
    /\ NumDevices(pool) >= 2
    /\ Len(obs.run) = NumDevices(pool)
    /\ obs.run0 # 0

(* ------------------------------ where the posts are ------------------- *)
Generated == 1..(next_post_id - 1)

InBufferN(id) == Cardinality({i \in Occupied(buffer) : buffer.slots[i].post.id = id})

OnDeviceN(id) ==
    Cardinality({i \in DOMAIN pool.devices : pool.devices[i].current_post.id = id})

InPacketN(id) == Cardinality({k \in 1..Len(packet.posts) : packet.posts[k].id = id})

LoggedN(evtype, id) ==
    Cardinality({k \in 1..Len(log_output) :
                    log_output[k][1] = evtype /\ log_output[k][3].post = id})

ServedN(id) == LoggedN("SERVICE_COMPLETE", id)

EvictedN(id) == LoggedN("BUFFER_EVICT", id)

(* C2: between two steps every generated post is in exactly one of: a      *)
(* buffer slot, a device, served-and-discarded, evicted-and-discarded.     *)
(* As stated this fails: a post of the in-flight packet that waits for a   *)
(* free device is in none of the four.                                     *)
C2_FourPlaces ==
    \A id \in Generated :
        InBufferN(id) + OnDeviceN(id) + ServedN(id) + EvictedN(id) = 1

(* C2 as amended: with the in-flight packet as a fifth place, every        *)
(* generated post is in exactly one of the five.                           *)
C2_FivePlaces ==
    \A id \in Generated :
        InBufferN(id) + OnDeviceN(id) + InPacketN(id) + ServedN(id) + EvictedN(id) = 1

\* a post waits in the packet while others are on a device, served and evicted
C2_Witness ==
    /\ packet # NoPacket
    /\ stats.served >= 1
    /\ stats.evicted >= 1
    /\ \E i \in DOMAIN pool.devices : pool.devices[i].busy

(* C3: with capacity >= 1, after every processed event generated = queued  *)
(* + direct, in direct and in non-direct mode.                             *)
C3_AdmissionConservation == stats.generated = stats.queued + stats.direct

\* direct mode: one post went straight to a device, a later one was queued
C3_Witness ==
    /\ params.direct
    /\ stats.generated >= 2
    /\ stats.queued >= 1
    /\ stats.queued < stats.generated
    /\ \E k \in 1..Len(log_output) : log_output[k][1] = "ASSIGN_TO_DEVICE"

(* C6: when a Selection Dispatcher invocation forms a packet, the packet   *)
(* is exactly the buffered posts of the source of the newest buffered post *)
(* (the seed), newest first, and afterwards the buffer holds exactly the   *)
(* posts of all other sources, each once.                                  *)
SlotOf(b, post) == CHOOSE i \in Occupied(b) : b.slots[i].post = post

PostsOf(b) == {b.slots[i].post : i \in Occupied(b)}

C6_BatchAffinity ==
    obs.formed.formed =>
        LET B == obs.formed.before
            same == obs.formed.same
            src == obs.formed.src
        IN  /\ \E i \in Occupied(B) :
                  /\ \A j \in Occupied(B) : B.slots[j].enqueued_at <= B.slots[i].enqueued_at
                  /\ B.slots[i].post = same[1]
                  /\ B.slots[i].post.source_id = src
            /\ {same[k] : k \in 1..Len(same)} = {p \in PostsOf(B) : p.source_id = src}
            /\ Len(same) = Cardinality({p \in PostsOf(B) : p.source_id = src})
            /\ \A j, k \in 1..Len(same) :
                  j < k => B.slots[SlotOf(B, same[j])].enqueued_at
                               >= B.slots[SlotOf(B, same[k])].enqueued_at
            /\ PostsOf(buffer) = {p \in PostsOf(B) : p.source_id # src}
            /\ Cardinality(Occupied(buffer)) = Cardinality(PostsOf(buffer))
            /\ buffer.size = Cardinality(Occupied(buffer))

\* a packet of two posts was formed from a buffer that also held another source
C6_Witness ==
    /\ obs.formed.formed
    /\ Len(obs.formed.same) >= 2
    /\ Cardinality(Occupied(obs.formed.before)) > Len(obs.formed.same)

Cfg9 ==
    /\ params.buffer = 1
    /\ params.devices = 1
    /\ params.sources = 1
    /\ ~params.direct

LogIndex(evtype, id) ==
    CHOOSE k \in 1..Len(log_output) :
        log_output[k][1] = evtype /\ log_output[k][3].post = id

(* C9 as stated: P2 arriving before P1 is served evicts P1 (evicted = 1).  *)
C9_SecondArrivalEvicts ==
    (Cfg9 /\ stats.generated = 2 /\ stats.served = 0) =>
        (stats.evicted = 1 /\ EvictedN(1) = 1 /\ InBufferN(2) = 1)

(* C9 as amended: P1 arriving at t=0 is enqueued and dispatched to the     *)
(* free device within the same arrival; P2 arriving before P1 is served is *)
(* enqueued without eviction (evicted = 0); when the device frees, P1 is   *)
(* served and P2 is dispatched: generated=2, queued=2, evicted=0, served=1.*)
C9_Scenario ==
    Cfg9 =>
        /\ stats.generated >= 1 =>
              /\ LoggedN("BUFFER_ENQUEUE", 1) = 1
              /\ LoggedN("SERVICE_START", 1) = 1
              /\ log_output[LogIndex("SERVICE_START", 1)][2] = 0
        /\ stats.generated = 2 =>
              /\ stats.queued = 2
              /\ stats.evicted = 0
              /\ stats.served = 0 => (OnDeviceN(1) = 1 /\ InBufferN(2) = 1)
              /\ stats.served = 1 =>
                    (ServedN(1) = 1 /\ OnDeviceN(2) = 1 /\ is_empty(buffer))

\* P2 arrived while P1 was in service, P1 is served and P2 is on the device
C9_Witness ==
    /\ Cfg9
    /\ stats = [generated |-> 2, queued |-> 2, served |-> 1, evicted |-> 0, direct |-> 0]
    /\ OnDeviceN(2) = 1
    /\ LogIndex("ARRIVAL", 2) < LogIndex("SERVICE_COMPLETE", 1)

(* C10: with direct = true and one device that is free at every arrival,   *)
(* every arrival is assigned directly: the buffer stays empty, queued      *)
(* stays 0 and the direct statistic equals generated.                      *)
C10_DirectCounted ==
    (params.direct /\ params.devices = 1 /\ obs.all_free) =>
        /\ Occupied(buffer) = {}
        /\ stats.queued = 0
        /\ stats.direct = stats.generated

\* C10 without the statistic: the buffer stays empty and queued stays 0
C10_BufferBypassed ==
    (params.direct /\ params.devices = 1 /\ obs.all_free) =>
        /\ Occupied(buffer) = {}
        /\ stats.queued = 0

\* two arrivals in a row found the only device free and were assigned directly
C10_Witness ==
    /\ params.direct
    /\ params.devices = 1
    /\ obs.all_free
    /\ stats.generated >= 2
    /\ LoggedN("ASSIGN_TO_DEVICE", 1) = 1
    /\ LoggedN("ASSIGN_TO_DEVICE", 2) = 1

(* ------------------------------ pending completions ------------------- *)
CompletionsFor(i) ==
    Cardinality({k \in 1..Len(calendar) :
                    calendar[k].kind = "Completion" /\ calendar[k].id = i})

(* C11: after every processed event, in direct and in non-direct mode,     *)
(* every busy device has exactly one pending Completion in the calendar.   *)
C11_OneCompletion ==
    \A i \in DOMAIN pool.devices : pool.devices[i].busy => CompletionsFor(i) = 1

\* two devices are busy at once after a completion and a direct assignment
C11_Witness ==
    /\ obs.op = "step"
    /\ NumDevices(pool) = 2
    /\ \A i \in DOMAIN pool.devices : pool.devices[i].busy /\ CompletionsFor(i) = 1
    /\ stats.served >= 1
    /\ \E k \in 1..Len(log_output) : log_output[k][1] = "ASSIGN_TO_DEVICE"
    /\ \E k \in 1..Len(log_output) : log_output[k][1] = "SERVICE_START"

(* C12: with capacity >= 1 the Placement Dispatcher never reports the hard *)
(* failure status 500: a post that is not assigned directly to a device is *)
(* enqueued after the evict-if-full step and is in the buffer when         *)
(* placement returns.                                                      *)
C12_NoHardFailure ==
    obs.res.called =>
        /\ obs.res.status = 202
        /\ obs.res.assigned_device_id = -1 => (obs.res.queued /\ obs.res.placed)

\* a placement in direct mode that found every device busy and the buffer
\* full: the oldest post was evicted and the new one is in a slot
C12_Witness ==
    /\ obs.res.called
    /\ obs.res.evicted_post_id # 0
    /\ obs.res.queued
    /\ obs.res.placed
    /\ params.direct
    /\ ~any_free(pool)

(* ------------------------------ run_automatic ------------------------- *)
\* every processed event logs one ARRIVAL or one SERVICE_COMPLETE entry
Processed ==
    Cardinality({k \in 1..Len(log_output) :
                    log_output[k][1] \in {"ARRIVAL", "SERVICE_COMPLETE"}})

(* C13: run_automatic(max_steps, max_time) returns after having processed  *)
(* at most max_steps events, none of them later than max_time, and it      *)
(* stops only when max_steps events are processed, the calendar is empty   *)
(* or every pending event lies after max_time; it returns the summary of   *)
(* the statistics.                                                         *)
C13_RunAutomatic ==
    obs.op = "run_automatic" =>
        /\ Processed = obs.auto.steps
        /\ Processed <= obs.auto.max_steps
        /\ Processed >= 1 => current_time <= obs.auto.max_time
        /\ \/ Processed = obs.auto.max_steps
           \/ calendar = <<>>
           \/ \A k \in 1..Len(calendar) : calendar[k].time > obs.auto.max_time
        /\ obs.auto.ret = summary(Sim)
        /\ obs.auto.ret.generated = stats.generated
        /\ obs.auto.ret.served = stats.served
        /\ obs.auto.ret.final_time = current_time

\* a run that used up its whole step budget with events still pending in time
C13_Witness ==
    /\ obs.op = "run_automatic"
    /\ obs.auto.max_steps = MaxSteps
    /\ Processed = MaxSteps
    /\ stats.served >= 1
    /\ \E k \in 1..Len(calendar) : calendar[k].time <= obs.auto.max_time

\* a run stopped by the clock before its step budget was used up
C13_WitnessTime ==
    /\ obs.op = "run_automatic"
    /\ Processed >= 1
    /\ Processed < obs.auto.max_steps
    /\ calendar # <<>>

(* C14: events are processed in non-decreasing timestamp order: a step     *)
(* pops an event whose timestamp is minimal in the calendar and sets the   *)
(* clock to it, the clock never decreases, and no event in the calendar    *)
(* is scheduled at a time earlier than the clock.                          *)
C14_TimeOrder ==
    [][/\ current_time' >= current_time
       /\ \A k \in 1..Len(calendar') : calendar'[k].time >= current_time'
       /\ (obs'.op = "step" /\ obs'.n # obs.n) =>
              /\ \E k \in 1..Len(calendar) : calendar[k].time = current_time'
              /\ \A k \in 1..Len(calendar) : calendar[k].time >= current_time'
      ]_vars

\* the clock has advanced over several steps and events of three different
\* times are pending, a Completion among them
C14_Witness ==
    /\ obs.op = "step"
    /\ current_time >= 2
    /\ stats.served >= 1
    /\ Cardinality({calendar[k].time : k \in 1..Len(calendar)}) >= 3
    /\ \E k \in 1..Len(calendar) : calendar[k].kind = "Completion"

(* ------------------------------ pending arrivals ---------------------- *)
ArrivalsFor(src) ==
    Cardinality({k \in 1..Len(calendar) :
                    calendar[k].kind = "Arrival" /\ calendar[k].id = src})

(* C15: after bootstrap and after every step the calendar holds exactly    *)
(* one pending Arrival for each source 1..sources and none for any other   *)
(* source; so with sources >= 1 the calendar is never empty after          *)
(* bootstrap and step() never returns false.                               *)
C15_OneArrivalPerSource ==
    booted =>
        /\ \A src \in 1..params.sources : ArrivalsFor(src) = 1
        /\ \A k \in 1..Len(calendar) :
              calendar[k].kind = "Arrival" => calendar[k].id \in 1..params.sources
        /\ params.sources >= 1 => calendar # <<>>
        /\ obs.op = "step" => obs.step_ret

\* several steps after bootstrap: both sources have produced posts and their
\* next arrivals are pending at different times next to a Completion
C15_Witness ==
    /\ booted
    /\ obs.op = "step"
    /\ params.sources = 2
    /\ obs.n >= 3
    /\ \A src \in 1..2 : ArrivalsFor(src) = 1
    /\ \A src \in 1..2 : \E k \in 1..Len(log_output) :
          log_output[k][1] = "ARRIVAL" /\ log_output[k][3].source = src
    /\ \E j, k \in 1..Len(calendar) :
          /\ calendar[j].kind = "Arrival" /\ calendar[k].kind = "Arrival"
          /\ calendar[j].time # calendar[k].time
    /\ \E k \in 1..Len(calendar) : calendar[k].kind = "Completion"

(* ------------------------------ order within a packet ----------------- *)
Started(id) == LoggedN("SERVICE_START", id) >= 1

(* C16: among the posts of one packet, the post enqueued most recently     *)
(* (the seed, first in the packet) starts service no later than any older  *)
(* post of that packet: once an older post of the packet formed in this    *)
(* step has started, the seed has started too.                             *)
C16_NewestStartsFirst ==
    obs.formed.formed =>
        \A k \in 2..Len(obs.formed.same) :
            Started(obs.formed.same[k].id) => Started(obs.formed.same[1].id)

\* a packet of two or more posts met fewer free devices than it has posts:
\* its last post is on a device, its first post waits in the packet
C16_Witness ==
    /\ obs.formed.formed
    /\ Len(obs.formed.same) >= 2
    /\ packet # NoPacket
    /\ packet.posts[1] = obs.formed.same[1]
    /\ Started(obs.formed.same[Len(obs.formed.same)].id)
    /\ ~Started(obs.formed.same[1].id)

(* ------------------------------ one packet at a time ------------------ *)
IsStart(k) == log_output[k][1] \in {"SERVICE_START", "ASSIGN_TO_DEVICE"}

\* f is the last PACKET_FORMED entry before entry j
LastFormed(f, j) ==
    /\ f < j
    /\ log_output[f][1] = "PACKET_FORMED"
    /\ \A k \in (f + 1)..(j - 1) : log_output[k][1] # "PACKET_FORMED"

\* the packet dispatches logged after entry f and before entry j
DispatchedBetween(f, j) ==
    Cardinality({k \in (f + 1)..(j - 1) : log_output[k][1] = "SERVICE_START"})

(* C17: while a packet has posts that are not yet dispatched, no post of a *)
(* different source starts service, neither through the Selection          *)
(* Dispatcher nor through direct placement: in a step entered with posts   *)
(* waiting in the packet, a post of another source starts only after all   *)
(* of them have started, and every start logged before the last formed     *)
(* packet has been dispatched in full is of the packet's source.           *)
FormedPacketFirst ==
    \A j \in 1..Len(log_output) :
        IsStart(j) =>
            \A f \in 1..(j - 1) :
                (LastFormed(f, j)
                   /\ DispatchedBetween(f, j) < log_output[f][3].packet_size)
                => log_output[j][3].source = log_output[f][3].source

C17_PacketExclusive ==
    [][/\ FormedPacketFirst'
       /\ \A j \in (Len(log_output) + 1)..Len(log_output') :
             (/\ packet # NoPacket
              /\ log_output'[j][1] \in {"SERVICE_START", "ASSIGN_TO_DEVICE"}
              /\ log_output'[j][3].source # packet.source_id)
             => \A q \in 1..Len(packet.posts) :
                    \E k \in (Len(log_output) + 1)..(j - 1) :
                        /\ log_output'[k][1] = "SERVICE_START"
                        /\ log_output'[k][3].post = packet.posts[q].id
      ]_vars

\* an arrival of another source met a packet with a post still waiting: the
\* new post was put in the buffer and the packet's post is still the next to start
C17_Witness ==
    /\ obs.op = "step"
    /\ obs.res.called
    /\ obs.res.queued
    /\ ~obs.formed.formed
    /\ packet # NoPacket
    /\ \E i \in Occupied(buffer) :
          /\ buffer.slots[i].post.id = next_post_id - 1
          /\ buffer.slots[i].post.source_id # packet.source_id
    /\ \E i \in DOMAIN pool.devices :
          pool.devices[i].current_post.source_id = packet.source_id

\* the same in direct mode
C17_WitnessDirect == C17_Witness /\ params.direct

(* ------------------------------ re-inserted posts --------------------- *)
\* the posts successive drop_oldest calls remove, in the order removed
RECURSIVE drain_oldest(_, _)
drain_oldest(b, dropped) ==
    IF drop_oldest_d10o3(b).post = NoPost THEN dropped
    ELSE drain_oldest(drop_oldest_d10o3(b).buf, Append(dropped, drop_oldest_d10o3(b).post))

Reversed(seq) == [k \in 1..Len(seq) |-> seq[Len(seq) + 1 - k]]

(* C18: during packet formation every pulled post of another source is     *)
(* re-inserted (no enqueue fails) with distinct enqueued_at values that    *)
(* increase strictly in reverse pull order, so later pick_newest calls     *)
(* return the re-inserted posts in the order they were pulled and          *)
(* drop_oldest removes them in the opposite order.                         *)
C18_ReinsertKeepsOrder ==
    obs.formed.formed =>
        LET other == obs.formed.other
        IN  /\ \A k \in 1..Len(other) :
                  \E i \in Occupied(buffer) :
                      /\ buffer.slots[i].post = other[k]
                      /\ buffer.slots[i].enqueued_at
                             = obs.formed.now + (Len(other) - k) * Eps
            /\ \A j, k \in 1..Len(other) :
                  j < k => buffer.slots[SlotOf(buffer, other[j])].enqueued_at
                               > buffer.slots[SlotOf(buffer, other[k])].enqueued_at
            /\ pull_rest(buffer, <<>>).pulled = other
            /\ drain_oldest(buffer, <<>>) = Reversed(other)

\* two posts of another source were pulled and put back
C18_Witness ==
    /\ obs.formed.formed
    /\ Len(obs.formed.other) >= 2
    /\ buffer.size = Len(obs.formed.other)

(* ------------------------------ ring admission ------------------------ *)
\* the slot d places after last_index, going round the ring
RingSlot(b, d) == (b.last_index + 1 + d) % b.capacity

(* C19: enqueue on a buffer that is not full writes the post into the      *)
(* first empty slot met when probing circularly from (last_index + 1) mod  *)
(* capacity, sets its enqueued_at to now, sets last_index to that slot and *)
(* adds one to size, leaving every other slot unchanged; enqueue on a full *)
(* buffer returns failure and changes no slot, size or last_index.         *)
C19_RingEnqueue ==
    obs.op = "enqueue" =>
        LET B == obs.before
        IN  IF B.size = B.capacity
            THEN ~obs.ok /\ buffer = B
            ELSE /\ obs.ok
                 /\ \E d \in 0..(B.capacity - 1) :
                       /\ B.slots[RingSlot(B, d)].post = NoPost
                       /\ \A e \in 0..(d - 1) : B.slots[RingSlot(B, e)].post # NoPost
                       /\ buffer.slots[RingSlot(B, d)]
                             = [post |-> obs.ret, enqueued_at |-> obs.ret_t]
                       /\ buffer.last_index = RingSlot(B, d)
                       /\ \A i \in DOMAIN B.slots :
                             i # RingSlot(B, d) => buffer.slots[i] = B.slots[i]
                 /\ buffer.size = B.size + 1
                 /\ buffer.capacity = B.capacity

\* an enqueue whose probe went round the end of the ring and passed two
\* occupied slots before it found the empty one
C19_Witness ==
    /\ obs.op = "enqueue"
    /\ obs.ok
    /\ obs.before.capacity = 3
    /\ obs.before.slots[RingSlot(obs.before, 0)].post # NoPost
    /\ obs.before.slots[RingSlot(obs.before, 1)].post # NoPost
    /\ RingSlot(obs.before, 0) > RingSlot(obs.before, 1)
    /\ buffer.last_index = RingSlot(obs.before, 2)

\* an enqueue on a full buffer
C19_WitnessFull ==
    /\ obs.op = "enqueue"
    /\ ~obs.ok
    /\ obs.before.capacity >= 2
    /\ buffer = obs.before

(* ------------------------------ which post is evicted ----------------- *)
(* C20 as stated: whenever the Placement Dispatcher evicts a post, no post *)
(* remaining in the buffer at that moment was generated earlier (has a     *)
(* smaller id) than the evicted one.                                       *)
C20_EvictsOldestGenerated ==
    obs.evict.happened =>
        \A i \in Occupied(obs.evict.after) :
            obs.evict.after.slots[i].post.id > obs.evict.post.id

(* C20 as amended: the evicted post is the buffered post of minimal        *)
(* enqueued_at, the lowest slot among ties, where enqueued_at is the       *)
(* arrival time or the synthetic time of the last re-insertion; no post    *)
(* remaining in the buffer has a smaller enqueued_at.                      *)
C20_EvictsOldestEnqueued ==
    obs.evict.happened =>
        \E v \in Occupied(obs.evict.before) :
            /\ obs.evict.before.slots[v] = [post |-> obs.evict.post,
                                            enqueued_at |-> obs.evict.t]
            /\ Occupied(obs.evict.after) = Occupied(obs.evict.before) \ {v}
            /\ \A i \in Occupied(obs.evict.after) :
                  /\ obs.evict.after.slots[i] = obs.evict.before.slots[i]
                  /\ obs.evict.after.slots[i].enqueued_at >= obs.evict.t
                  /\ obs.evict.after.slots[i].enqueued_at = obs.evict.t => i > v

\* the evicted post had been re-inserted by the Selection Dispatcher: its
\* enqueued_at was a synthetic time, later than its arrival
C20_Witness ==
    /\ obs.evict.happened
    /\ obs.evict.t > obs.evict.post.created_at
    /\ Occupied(obs.evict.after) # {}

(* ------------------------------ started posts are served -------------- *)
\* the run has come to its last arrival: the next event is an Arrival that
\* would generate a post beyond MaxPosts
Stopped ==
    /\ booted
    /\ calendar # <<>>
    /\ heappop(calendar).item.kind = "Arrival"
    /\ next_post_id > MaxPosts

\* post id is on a device whose Completion is still pending when the run stops
HeldUp(id) ==
    /\ Stopped
    /\ \E i \in DOMAIN pool.devices :
          pool.devices[i].current_post.id = id /\ CompletionsFor(i) = 1

(* C21: every post that starts service on a device, by direct placement or *)
(* by the Selection Dispatcher, is eventually served as long as steps keep *)
(* being taken: the Completion scheduled for its device fires, frees the   *)
(* device and counts the post as served (or the run stops at its last      *)
(* arrival with that Completion still pending).                            *)
C21_StartedIsServed ==
    \A id \in 1..MaxPosts :
        (OnDeviceN(id) = 1) ~> ((ServedN(id) = 1 /\ OnDeviceN(id) = 0) \/ HeldUp(id))

\* posts started by direct placement and by the Selection Dispatcher have
\* both been served
C21_Witness ==
    /\ \E id \in Generated : LoggedN("ASSIGN_TO_DEVICE", id) = 1 /\ ServedN(id) = 1
    /\ \E id \in Generated : LoggedN("SERVICE_START", id) = 1 /\ ServedN(id) = 1
    /\ stats.served >= 3

(* ------------------------------ work conservation --------------------- *)
(* C22: after every fully processed event, in direct and in non-direct     *)
(* mode, a free device means that the buffer is empty and that no packet   *)
(* has undispatched posts: no post waits next to an idle device.           *)
C22_WorkConserving ==
    any_free(pool) => is_empty(buffer) /\ packet.posts = <<>>

\* direct mode: posts have gone through the buffer, and after the last step a
\* device is idle again
C22_Witness ==
    /\ obs.op = "step"
    /\ params.direct
    /\ stats.queued >= 1
    /\ LoggedN("SERVICE_START", 2) + LoggedN("SERVICE_START", 3) >= 1
    /\ any_free(pool)

\* non-direct mode: an arrival that found a device idle went through the
\* buffer to that device in the same step, and another device is still idle
C22_WitnessOpportunistic ==
    /\ obs.op = "step"
    /\ ~params.direct
    /\ obs.res.called /\ obs.res.queued
    /\ obs.formed.formed
    /\ any_free(pool)

(* ------------------------------ no stale Completion ------------------- *)
\* the SERVICE_COMPLETE entries of the log, one per Completion popped so far
Completed == {k \in 1..Len(log_output) : log_output[k][1] = "SERVICE_COMPLETE"}

(* C23: no stale Completion ever fires: every Completion popped from the   *)
(* calendar found its device busy with a post, so served grew by exactly   *)
(* one per Completion, and no free device has a pending Completion in the  *)
(* calendar.                                                               *)
C23_NoStaleCompletion ==
    /\ \A k \in Completed : log_output[k][3].post \in Generated
    /\ stats.served = Cardinality(Completed)
    /\ \A i \in DOMAIN pool.devices :
          is_free(pool.devices[i]) => CompletionsFor(i) = 0

\* the last step popped a Completion that left its device idle, while
\* another device is busy with its Completion pending
C23_Witness ==
    /\ obs.op = "step"
    /\ Completed # {}
    /\ log_output[Len(log_output)][1] = "SERVICE_COMPLETE"
    /\ is_free(pool.devices[log_output[Len(log_output)][3].device])
    /\ \E i \in DOMAIN pool.devices : pool.devices[i].busy /\ CompletionsFor(i) = 1
    /\ stats.served >= 2

(* ------------------------------ accounting by counters ---------------- *)
BusyDevices == {i \in DOMAIN pool.devices : pool.devices[i].busy}

(* C24: with capacity >= 1, after every fully processed event              *)
(* generated = served + evicted + buffer.size + (busy devices) +           *)
(* (undispatched posts of the in-flight packet): the packet is the fifth   *)
(* place a generated post can be in.                                       *)
C24_CountersBalance ==
    params.buffer >= 1 =>
        stats.generated = stats.served + stats.evicted + buffer.size
                          + Cardinality(BusyDevices) + Len(packet.posts)

\* all five places hold a post at once
C24_Witness ==
    /\ obs.op = "step"
    /\ stats.served >= 1
    /\ stats.evicted >= 1
    /\ buffer.size >= 1
    /\ BusyDevices # {}
    /\ packet.posts # <<>>

(* ------------------------------ posts waiting in the packet ----------- *)
\* posts waiting for a device: in a buffer slot or undispatched in the packet
Waiting == buffer.size + Len(packet.posts)

(* C25: the posts of the in-flight packet do not count against the buffer  *)
(* and are never evicted: after every fully processed event the packet     *)
(* holds at most capacity - 1 posts, none of them in a buffer slot or      *)
(* evicted, and at most 2 * capacity - 1 posts wait for a device.  (That   *)
(* more than capacity posts can wait is the state C25_Witness describes.)  *)
C25_PacketBesideBuffer ==
    /\ Len(packet.posts) <= params.buffer - 1
    /\ Waiting <= 2 * params.buffer - 1
    /\ \A k \in 1..Len(packet.posts) :
          /\ InBufferN(packet.posts[k].id) = 0
          /\ EvictedN(packet.posts[k].id) = 0

\* more posts wait for a device than the buffer has slots
C25_Witness ==
    /\ obs.op = "step"
    /\ packet.posts # <<>>
    /\ is_full(buffer)
    /\ Waiting > params.buffer

\* a full buffer evicted a post while the packet held posts, and the packet
\* kept them
C25_WitnessEvict ==
    /\ obs.op = "step"
    /\ obs.evict.happened
    /\ packet.posts # <<>>

====
